---- MODULE Spec2Model ----
(***************************************************************************)
(* Model of src/main.py: the drug-food interaction prediction backend.     *)
(* Python dicts are sequences of <<key, value>> pairs in insertion order.  *)
(* Nutrient amounts are whole units; confidences and probabilities are     *)
(* integer hundredths (0.75 is 75).                                        *)
(***************************************************************************)
EXTENDS Integers, Sequences, FiniteSets, TLC

VARIABLES
  pc,                 \* position of the operation under study
  food_nutrients_raw, \* the raw USDA record handed to the normalizer
  nutrients,          \* the mapping extract_comprehensive_nutrients returned
  loaded_models,      \* the process-wide bundle (global dict)
  drug_descriptors,   \* argument of predict_interaction / get_fallback_prediction
  food_nutrients,     \* argument of predict_interaction / get_fallback_prediction
  proba,              \* behaviour of the opaque classifier for this request
  rnd,                \* the draws np.random made for this request
  lookups,            \* how the external lookups of the request went
  features,           \* the vector predict_interaction assembled
  result,             \* what the operation returned
  classifier_calls,   \* number of model.predict_proba invocations in the request
  fallback_calls,     \* number of get_fallback_prediction invocations in the request
  raised,             \* TRUE iff the operation propagated an exception
  response,           \* what /api/predict answered
  requests            \* the requests the server is handling concurrently

normVars == <<food_nutrients_raw, nutrients>>
inputVars == <<drug_descriptors, food_nutrients, proba, rnd, lookups>>
outputVars == <<features, result, classifier_calls, fallback_calls, raised, response>>
vars == <<pc, normVars, loaded_models, inputVars, outputVars, requests>>

(* ---------------- bounds of the model ---------------- *)
MaxRecLen == 2
MaxOrderLen == 2
NumFingerprintBits == 2
NumRequests == 2

(* ---------------- Python dict helpers ---------------- *)
Range(s) == {s[i] : i \in 1..Len(s)}

DictKeys(d) == [i \in 1..Len(d) |-> d[i][1]]

HasKey(d, k) == \E i \in 1..Len(d) : d[i][1] = k

DictItem(d, k) == d[CHOOSE i \in 1..Len(d) : d[i][1] = k][2]

DictGet(d, k, default) == IF HasKey(d, k) THEN DictItem(d, k) ELSE default

(* ---------------- Attribute Normalizer ---------------- *)
\* nutrient_map as it would be had the 'Zinc' line been left out
nutrient_map_NoZinc ==
  << <<"Fat", <<1004>> >>, <<"Carbohydrates", <<1005>> >>, <<"Protein", <<1003>> >>,
     <<"Vitamin_C_mg", <<1162>> >>, <<"Vitamin_D_ug", <<1114>> >>,
     <<"Vitamin_B12_ug", <<1178>> >>, <<"Vitamin_B6_mg", <<1175>> >>,
     <<"Vitamin_A_ug", <<1106, 1104>> >>, <<"Vitamin_E_mg", <<1109>> >>,
     <<"Vitamin_K_ug", <<1185>> >>, <<"Folate_ug", <<1177, 1186>> >>,
     <<"Calcium", <<1087>> >>, <<"Iron", <<1089>> >>, <<"Magnesium", <<1090>> >>,
     <<"Potassium", <<1092>> >>, <<"Sodium", <<1093>> >>,
     <<"Saturated_Fat_g", <<1258>> >>, <<"Monounsaturated_Fat_g", <<1292>> >>,
     <<"Polyunsaturated_Fat_g", <<1293>> >>, <<"Cholesterol_mg", <<1253>> >> >>

nutrient_map ==
  << <<"Fat", <<1004>> >>,
     <<"Carbohydrates", <<1005>> >>,
     <<"Protein", <<1003>> >>,
     <<"Vitamin_C_mg", <<1162>> >>,
     <<"Vitamin_D_ug", <<1114>> >>,
     <<"Vitamin_B12_ug", <<1178>> >>,
     <<"Vitamin_B6_mg", <<1175>> >>,
     <<"Vitamin_A_ug", <<1106, 1104>> >>,
     <<"Vitamin_E_mg", <<1109>> >>,
     <<"Vitamin_K_ug", <<1185>> >>,
     <<"Folate_ug", <<1177, 1186>> >>,
     <<"Calcium", <<1087>> >>,
     <<"Iron", <<1089>> >>,
     <<"Magnesium", <<1090>> >>,
     <<"Potassium", <<1092>> >>,
     <<"Sodium", <<1093>> >>,
     <<"Zinc", <<1095>> >>,
     <<"Saturated_Fat_g", <<1258>> >>,
     <<"Monounsaturated_Fat_g", <<1292>> >>,
     <<"Polyunsaturated_Fat_g", <<1293>> >>,
     <<"Cholesterol_mg", <<1253>> >> >>

\* list_supported_nutrients: the four categories of the /api/nutrients/list answer
supported_macronutrients == <<"Fat", "Carbohydrates", "Protein">>
supported_vitamins ==
  <<"Vitamin_C_mg", "Vitamin_D_ug", "Vitamin_B12_ug", "Vitamin_B6_mg",
    "Vitamin_A_ug", "Vitamin_E_mg", "Vitamin_K_ug", "Folate_ug">>
supported_minerals == <<"Calcium", "Iron", "Magnesium", "Potassium", "Sodium", "Zinc">>
supported_fat_breakdown ==
  <<"Saturated_Fat_g", "Monounsaturated_Fat_g", "Polyunsaturated_Fat_g", "Cholesterol_mg">>
total_nutrients ==
  Len(supported_macronutrients) + Len(supported_vitamins)
    + Len(supported_minerals) + Len(supported_fat_breakdown)

\* An entry of the raw USDA record: food_nutrient.get('nutrient', {}).get('id')
\* is id (NoId when the entry carries none); the 'amount' key is absent, None
\* or a number.
NoId == 0
AmountAbsent == [kind |-> "absent", val |-> 0]
AmountNull == [kind |-> "null", val |-> 0]
AmountNum(v) == [kind |-> "num", val |-> v]

\* food_nutrient.get('amount', 0.0)
GetAmount(entry) == IF entry.amount.kind = "absent" THEN AmountNum(0) ELSE entry.amount

\* the inner loop of extract_comprehensive_nutrients, from entry i on, value so far 0.0
RECURSIVE ScanRecord(_, _, _)
ScanRecord(raw, nutrient_ids, i) ==
  IF i > Len(raw) THEN 0
  ELSE IF raw[i].id \in Range(nutrient_ids)
       THEN LET amount == GetAmount(raw[i])
            IN IF amount.kind # "null" THEN amount.val ELSE 0
       ELSE ScanRecord(raw, nutrient_ids, i + 1)

extract_comprehensive_nutrients(raw) ==
  [n \in 1..Len(nutrient_map) |->
     <<nutrient_map[n][1], ScanRecord(raw, nutrient_map[n][2], 1)>>]

(* ---------------- inputs of the normalizer ---------------- *)
RecordIds == {NoId, 1106, 1104, 1177, 1186, 1087, 9999}
RecordAmounts == {AmountAbsent, AmountNull, AmountNum(3), AmountNum(8)}
RecordEntries == [id : RecordIds, amount : RecordAmounts]
RawRecords == UNION {[1..n -> RecordEntries] : n \in 0..MaxRecLen}

NoDict == << <<"unset", 0>> >>
NoDraw == [r |-> -1, choice |-> 0, conf |-> 0]
NoProba == [raises |-> FALSE, probs |-> <<>>]
RequestIds == 1..NumRequests
IdleHandler == [kind |-> "none", pc |-> "idle", drug |-> << <<"unset", 0>> >>,
                status |-> 0, detail |-> "none", seen |-> <<"unread">>]
NoRequests == [r \in RequestIds |-> IdleHandler]
NoLookups == [smiles |-> "none", rdkit |-> "none", food |-> "none"]
NoResponse == [status |-> 0, detail |-> "none"]
NoResult == [effect |-> "unset", confidence |-> 0,
             explanation |-> [template |-> "unset", confidence |-> 0]]

IdleRequest ==
  /\ drug_descriptors = NoDict
  /\ food_nutrients = NoDict
  /\ proba = NoProba
  /\ rnd = NoDraw
  /\ lookups = NoLookups
  /\ features = <<>>
  /\ result = NoResult
  /\ classifier_calls = 0
  /\ fallback_calls = 0
  /\ raised = FALSE
  /\ response = NoResponse
  /\ requests = NoRequests

InitNorm ==
  /\ pc = "start"
  /\ food_nutrients_raw \in RawRecords
  /\ nutrients = NoDict
  /\ loaded_models = <<>>
  /\ IdleRequest

ExtractComprehensiveNutrients ==
  /\ pc = "start"
  /\ nutrients' = extract_comprehensive_nutrients(food_nutrients_raw)
  /\ pc' = "done"
  /\ UNCHANGED <<food_nutrients_raw, loaded_models, inputVars, outputVars, requests>>

NextNorm == ExtractComprehensiveNutrients

SpecNorm == InitNorm /\ [][NextNorm]_vars

(* ---------------- ClassifierBundle: load_models ---------------- *)
\* the three artifacts as joblib.load returns them; the classifier itself is
\* opaque, its answer to a request is the request's proba
XgbModelArtifact == <<"XGBClassifier">>
LabelEncoderClasses == <<"harmful", "negative", "no effect", "positive", "possible">>
FeatureNames == {"MolWt", "Calcium", "Vitamin_K_ug", "Unknown_Feature"}
FeatureOrderArtifacts == UNION {[1..n -> FeatureNames] : n \in 0..MaxOrderLen}

\* the members load_models stored before the first joblib.load that failed:
\* loaded = 3 is the run without failure
\* the three loads with the decoder loaded before the model
LoadSequence_DecoderFirst(order) ==
  << <<"label_encoder", LabelEncoderClasses>>,
     <<"xgb_model", XgbModelArtifact>>,
     <<"feature_order", order>> >>

\* lines 137-139: the three assignments load_models makes, in program order
LoadSequence(order) ==
  << <<"xgb_model", XgbModelArtifact>>,
     <<"label_encoder", LabelEncoderClasses>>,
     <<"feature_order", order>> >>

LoadedBundle(loaded, order) == SubSeq(LoadSequence(order), 1, loaded)

load_models(loaded, order) ==
  [bundle |-> LoadedBundle(loaded, order), success |-> (loaded = 3)]

(* ---------------- Explanation Generator ---------------- *)
\* the template chosen by explanations.get(effect, generic) and the confidence
\* it interpolates with two decimals
get_explanation(effect, confidence) ==
  [template |-> IF effect \in {"harmful", "negative", "no effect", "positive", "possible"}
                THEN effect ELSE "generic",
   confidence |-> confidence]

(* ---------------- Fallback Scorer ---------------- *)
effects == <<"no effect", "possible", "positive", "harmful">>

Max(a, b) == IF a >= b THEN a ELSE b
Min(a, b) == IF a <= b THEN a ELSE b

\* the draws of one invocation: r is np.random.random(); choice and conf are
\* np.random.choice(effects) and np.random.uniform(0.6, 0.92), made only when
\* r > 0.7
UniformConfidence_Wide == 60..95
UniformConfidence == 60..91
RandomValues == {0, 70, 71, 99}
FallbackDraws ==
  {[r |-> r, choice |-> 0, conf |-> 0] : r \in {x \in RandomValues : ~(x > 70)}}
    \cup [r : {x \in RandomValues : x > 70}, choice : 1..Len(effects), conf : UniformConfidence]

\* rules 1-3 with the calcium rule lowering the confidence to 0.65
FallbackRules_Min(food) ==
  LET effect1 == IF DictGet(food, "Vitamin_K_ug", 0) > 100 THEN "possible" ELSE "no effect"
      confidence1 == IF DictGet(food, "Vitamin_K_ug", 0) > 100 THEN 68 ELSE 75
      calcium == DictGet(food, "Calcium", 0) > 150
  IN [effect |-> IF calcium /\ effect1 = "no effect" THEN "possible" ELSE effect1,
      confidence |-> IF calcium THEN Min(65, confidence1) ELSE confidence1]

\* rules 1-3 with the vitamin K threshold taken inclusive
FallbackRules_Inclusive(food) ==
  LET effect1 == IF DictGet(food, "Vitamin_K_ug", 0) >= 100 THEN "possible" ELSE "no effect"
      confidence1 == IF DictGet(food, "Vitamin_K_ug", 0) >= 100 THEN 68 ELSE 75
      calcium == DictGet(food, "Calcium", 0) > 150
  IN [effect |-> IF calcium /\ effect1 = "no effect" THEN "possible" ELSE effect1,
      confidence |-> IF calcium THEN Max(65, confidence1) ELSE confidence1]

\* lines 423-434: the deterministic rules
FallbackRules(food) ==
  LET effect1 == IF DictGet(food, "Vitamin_K_ug", 0) > 100 THEN "possible" ELSE "no effect"
      confidence1 == IF DictGet(food, "Vitamin_K_ug", 0) > 100 THEN 68 ELSE 75
      calcium == DictGet(food, "Calcium", 0) > 150
  IN [effect |-> IF calcium /\ effect1 = "no effect" THEN "possible" ELSE effect1,
      confidence |-> IF calcium THEN Max(65, confidence1) ELSE confidence1]

get_fallback_prediction(drug, food, draw) ==
  LET rules == FallbackRules(food)
      effect == IF draw.r > 70 THEN effects[draw.choice] ELSE rules.effect
      confidence == IF draw.r > 70 THEN draw.conf ELSE rules.confidence
  IN [effect |-> effect, confidence |-> confidence,
      explanation |-> get_explanation(effect, confidence)]

(* ---------------- Feature Vector Assembler and Classifier Adapter ---------------- *)
\* lines 376-380
FeatureOrderOf(models, drug, food) ==
  IF HasKey(models, "feature_order") THEN DictItem(models, "feature_order")
  ELSE DictKeys(drug) \o DictKeys(food)

\* the assembler with the food mapping consulted first
AssembleFeatures_FoodFirst(feature_order, drug, food) ==
  [i \in 1..Len(feature_order) |->
     IF HasKey(food, feature_order[i]) THEN DictItem(food, feature_order[i])
     ELSE IF HasKey(drug, feature_order[i]) THEN DictItem(drug, feature_order[i])
     ELSE 0]

\* lines 383-390
AssembleFeatures(feature_order, drug, food) ==
  [i \in 1..Len(feature_order) |->
     IF HasKey(drug, feature_order[i]) THEN DictItem(drug, feature_order[i])
     ELSE IF HasKey(food, feature_order[i]) THEN DictItem(food, feature_order[i])
     ELSE 0]

\* np.argmax: the first index holding the maximum (1-based here)
ArgMax(p) ==
  CHOOSE i \in 1..Len(p) :
    /\ \A j \in 1..Len(p) : p[j] <= p[i]
    /\ \A j \in 1..(i - 1) : p[j] < p[i]

Outcome(res, cc, fc, exc) ==
  [result |-> res, classifier_calls |-> cc, fallback_calls |-> fc, raised |-> exc]

\* line 395
ModelsAvailable(models) == HasKey(models, "xgb_model") /\ HasKey(models, "label_encoder")

\* lines 396-411: raised = TRUE stands for an exception leaving the block.
\* predict_proba raises, or answers probs; np.argmax raises on an empty answer;
\* inverse_transform raises on an index outside the decoder's classes.
ClassifierBranch(models, answer) ==
  IF answer.raises THEN Outcome(NoResult, 1, 0, TRUE)
  ELSE IF Len(answer.probs) = 0 THEN Outcome(NoResult, 1, 0, TRUE)
  ELSE LET predicted_class_idx == ArgMax(answer.probs)
           confidence == answer.probs[predicted_class_idx]
           classes == DictItem(models, "label_encoder")
       IN IF predicted_class_idx > Len(classes) THEN Outcome(NoResult, 1, 0, TRUE)
          ELSE Outcome([effect |-> classes[predicted_class_idx],
                        confidence |-> confidence,
                        explanation |-> get_explanation(classes[predicted_class_idx], confidence)],
                       1, 0, FALSE)

\* the else branch with the return statement forgotten: None is returned
FallbackBranch_NoReturn(drug, food, draw) == Outcome(NoResult, 0, 1, FALSE)

\* lines 412-414
FallbackBranch(drug, food, draw) ==
  Outcome(get_fallback_prediction(drug, food, draw), 0, 1, FALSE)

\* the handler re-raising instead of falling back
ExceptBranch_Reraise(body, drug, food, draw) == body

\* lines 416-418: the handler of the try block, entered when the body raised
ExceptBranch(body, drug, food, draw) ==
  IF body.raised
  THEN Outcome(get_fallback_prediction(drug, food, draw),
               body.classifier_calls, body.fallback_calls + 1, FALSE)
  ELSE body

predict_interaction(models, drug, food, answer, draw) ==
  LET feature_order == FeatureOrderOf(models, drug, food)
      vector == AssembleFeatures(feature_order, drug, food)
      body == IF ModelsAvailable(models) THEN ClassifierBranch(models, answer)
              ELSE FallbackBranch(drug, food, draw)
  IN [features |-> vector, out |-> ExceptBranch(body, drug, food, draw)]

(* ---------------- inputs of the predictor ---------------- *)
DrugInputs ==
  { <<>>,
    << <<"MolWt", 7>> >>,
    << <<"MolWt", 7>>, <<"Calcium", 999>> >> }

VitaminKInputs == {<<>>} \cup {<< <<"Vitamin_K_ug", v>> >> : v \in {0, 100, 101, 150}}
CalciumInputs == {<<>>} \cup {<< <<"Calcium", v>> >> : v \in {0, 50, 150, 151, 200}}
FoodInputs == {k \o c : k \in VitaminKInputs, c \in CalciumInputs}

ClassifierAnswers ==
  { [raises |-> TRUE, probs |-> <<>>],
    [raises |-> FALSE, probs |-> <<5, 5, 80, 5, 5>>],
    [raises |-> FALSE, probs |-> <<50, 50, 0, 0, 0>>],
    [raises |-> FALSE, probs |-> <<0, 0, 0, 0, 0, 100>>] }

\* the draws tried per call of predict_interaction: both sides of the 0.7
\* test, both ends of the confidence range, every label
PredictDraws == {d \in FallbackDraws : d.r \in {70, 71} /\ d.conf \in {0, 60, 91}}

InitPredict ==
  /\ pc = "startup"
  /\ food_nutrients_raw = <<>>
  /\ nutrients = NoDict
  /\ loaded_models = <<>>
  /\ IdleRequest

\* startup_event: the single load attempt
LoadModels ==
  /\ pc = "startup"
  /\ \E loaded \in 0..3 : \E order \in FeatureOrderArtifacts :
       loaded_models' = load_models(loaded, order).bundle
  /\ pc' = "serving"
  /\ UNCHANGED <<normVars, inputVars, outputVars, requests>>

\* the draws are made only when the fallback scorer runs
DrawsUsed(out, draw) == IF out.fallback_calls > 0 THEN draw ELSE NoDraw

\* one call predict_interaction(drug, food)
PredictInteraction ==
  /\ pc = "serving"
  /\ \E drug \in DrugInputs, food \in FoodInputs,
        answer \in ClassifierAnswers, draw \in PredictDraws :
       LET call == predict_interaction(loaded_models, drug, food, answer, draw)
       IN /\ drug_descriptors' = drug
          /\ food_nutrients' = food
          /\ proba' = IF call.out.classifier_calls > 0 THEN answer ELSE NoProba
          /\ rnd' = DrawsUsed(call.out, draw)
          /\ features' = call.features
          /\ result' = call.out.result
          /\ classifier_calls' = call.out.classifier_calls
          /\ fallback_calls' = call.out.fallback_calls
          /\ raised' = call.out.raised
  /\ pc' = "done"
  /\ UNCHANGED <<normVars, loaded_models, lookups, response, requests>>

NextPredict == LoadModels \/ PredictInteraction

SpecPredict == InitPredict /\ [][NextPredict]_vars

(* ---------------- load_models, one joblib.load at a time ---------------- *)
\* a joblib.load of lines 137-139 succeeded and its assignment was made;
\* orders are the contents feature_order.joblib may have
LoadArtifactFrom(orders) ==
  /\ pc = "startup"
  /\ Len(loaded_models) < 3
  /\ \E order \in orders :
       loaded_models' = Append(loaded_models, LoadSequence(order)[Len(loaded_models) + 1])
  /\ UNCHANGED <<pc, normVars, inputVars, outputVars, requests>>

LoadArtifact == LoadArtifactFrom(FeatureOrderArtifacts)

\* a joblib.load raised: lines 142-144 return False, startup_event only warns
LoadFails ==
  /\ pc = "startup"
  /\ Len(loaded_models) < 3
  /\ pc' = "serving"
  /\ UNCHANGED <<loaded_models, normVars, inputVars, outputVars, requests>>

\* lines 140-141: all three loaded, load_models returns True
LoadCompletes ==
  /\ pc = "startup"
  /\ Len(loaded_models) = 3
  /\ pc' = "serving"
  /\ UNCHANGED <<loaded_models, normVars, inputVars, outputVars, requests>>

NextStartup == LoadArtifact \/ LoadFails \/ LoadCompletes \/ PredictInteraction

SpecStartup == InitPredict /\ [][NextStartup]_vars

InitFallback ==
  /\ pc = "start"
  /\ food_nutrients_raw = <<>>
  /\ nutrients = NoDict
  /\ loaded_models = <<>>
  /\ drug_descriptors \in DrugInputs
  /\ food_nutrients \in FoodInputs
  /\ proba = NoProba
  /\ rnd = NoDraw
  /\ lookups = NoLookups
  /\ features = <<>>
  /\ result = NoResult
  /\ classifier_calls = 0
  /\ fallback_calls = 0
  /\ raised = FALSE
  /\ response = NoResponse
  /\ requests = NoRequests

\* one call get_fallback_prediction(drug, food)
GetFallbackPrediction ==
  /\ pc = "start"
  /\ \E draw \in FallbackDraws :
       /\ rnd' = draw
       /\ result' = get_fallback_prediction(drug_descriptors, food_nutrients, draw)
  /\ fallback_calls' = fallback_calls + 1
  /\ pc' = "done"
  /\ UNCHANGED <<requests, normVars, loaded_models, drug_descriptors, food_nutrients, proba,
                 lookups, features, classifier_calls, raised, response>>

NextFallback == GetFallbackPrediction

SpecFallback == InitFallback /\ [][NextFallback]_vars

(* ---------------- external lookups and the /api/predict endpoint ---------------- *)
\* What happens inside the try block of get_canonical_smiles.
SmilesEvents == {"ok", "non200", "timeout", "error"}

\* lines 154-172: status is the HTTPException's status code when raises.
\* The HTTPException(404) of line 167 is raised inside the try block and is
\* caught by `except Exception`, which raises the 500.
get_canonical_smiles(event) ==
  CASE event = "ok" -> [raises |-> FALSE, status |-> 200]
    [] event = "timeout" -> [raises |-> TRUE, status |-> 408]
    [] event = "non200" -> [raises |-> TRUE, status |-> 500]
    [] OTHER -> [raises |-> TRUE, status |-> 500]

\* FP_0 .. FP_(NumFingerprintBits-1), each with the given bit
FingerprintFeatures(bit) == [i \in 1..NumFingerprintBits |-> <<"FP_" \o ToString(i - 1), bit>>]

\* lines 187-211: the descriptors RDKit computes for the resolved molecule
RdkitDescriptors ==
  << <<"MolWt", 180>>, <<"LogP", 1>>, <<"HBA", 3>>, <<"HBD", 1>>, <<"TPSA", 63>>,
     <<"RotBonds", 2>>, <<"RingCount", 1>>, <<"FractionCSP3", 0>>, <<"BalabanJ", 3>>,
     <<"BertzCT", 343>> >> \o FingerprintFeatures(1)

\* lines 223-242: the random descriptors, hba and bit being two of the draws
get_mock_molecular_descriptors(hba, bit) ==
  << <<"MolWt", 100>>, <<"LogP", -2>>, <<"HBA", hba>>, <<"HBD", 0>>, <<"TPSA", 20>>,
     <<"RotBonds", 0>>, <<"RingCount", 0>>, <<"FractionCSP3", 0>>, <<"BalabanJ", 1>>,
     <<"BertzCT", 100>> >> \o FingerprintFeatures(bit)

RdkitEvents == {"ok", "import_error", "invalid"}

\* lines 174-221: never raises; every failure yields mock descriptors
calculate_molecular_descriptors(event, hba, bit) ==
  IF event = "ok" THEN RdkitDescriptors ELSE get_mock_molecular_descriptors(hba, bit)

\* lines 339-370: the random nutrients, k and ca being the draws for
\* Vitamin_K_ug and Calcium
get_mock_comprehensive_nutrients(k, ca) ==
  [n \in 1..Len(nutrient_map) |->
     <<nutrient_map[n][1],
       IF nutrient_map[n][1] = "Vitamin_K_ug" THEN k
       ELSE IF nutrient_map[n][1] = "Calcium" THEN ca
       ELSE 0>>]

\* What happens inside the try block of search_food_nutrients.
FoodEvents == {"ok", "search_non200", "empty_search", "detail_non200", "timeout", "error"}

\* lines 244-288: the HTTPExceptions of lines 259, 263 and 275 are raised
\* inside the try block, so `except Exception` catches them like any other
\* error and returns the mock nutrients; only asyncio.TimeoutError is turned
\* into an HTTPException that leaves the function.
search_food_nutrients(event, raw, k, ca) ==
  CASE event = "ok" ->
         [raises |-> FALSE, status |-> 200, nutrients |-> extract_comprehensive_nutrients(raw)]
    [] event = "timeout" -> [raises |-> TRUE, status |-> 408, nutrients |-> NoDict]
    [] OTHER ->
         [raises |-> FALSE, status |-> 200, nutrients |-> get_mock_comprehensive_nutrients(k, ca)]

\* lines 538-540: whatever the try block of the endpoint raised becomes a 500
EndpointError == [status |-> 500, detail |-> "error"]

ApiRecords ==
  { <<>>,
    << [id |-> 1185, amount |-> AmountNum(150)], [id |-> 1087, amount |-> AmountNum(50)] >>,
    << [id |-> 9999, amount |-> AmountNum(3)], [id |-> 1087, amount |-> AmountNum(200)] >> }
MockHbaDraws == {1, 9}
MockBitDraws == {0}
MockVitaminKDraws == {0, 499}
MockCalciumDraws == {0, 249}

\* the USDA record is read only when both responses arrived, the mock draws
\* are made only when the mock nutrients are returned
RecordsRead(fev) == IF fev = "ok" THEN ApiRecords ELSE {<<>>}
MockDrawsMade(fev, draws) == IF fev \in {"ok", "timeout"} THEN {0} ELSE draws

\* /api/predict up to the answer of get_canonical_smiles and the descriptors
PredictEndpointDrug ==
  /\ pc = "serving"
  /\ \E sev \in SmilesEvents, rev \in RdkitEvents, hba \in MockHbaDraws, bit \in MockBitDraws :
       LET smiles == get_canonical_smiles(sev)
       IN IF smiles.raises
          THEN /\ lookups' = [lookups EXCEPT !.smiles = sev]
               /\ response' = EndpointError
               /\ pc' = "responded"
               /\ UNCHANGED drug_descriptors
          ELSE /\ lookups' = [lookups EXCEPT !.smiles = sev, !.rdkit = rev]
               /\ drug_descriptors' = calculate_molecular_descriptors(rev, hba, bit)
               /\ pc' = "await_food"
               /\ UNCHANGED response
  /\ UNCHANGED <<requests, normVars, loaded_models, food_nutrients, proba, rnd, features, result,
                 classifier_calls, fallback_calls, raised>>

\* /api/predict from the answer of search_food_nutrients to the response
PredictEndpointFood ==
  /\ pc = "await_food"
  /\ \E fev \in FoodEvents, answer \in ClassifierAnswers, draw \in PredictDraws :
     \E raw \in RecordsRead(fev), k \in MockDrawsMade(fev, MockVitaminKDraws),
        ca \in MockDrawsMade(fev, MockCalciumDraws) :
       LET food == search_food_nutrients(fev, raw, k, ca)
           call == predict_interaction(loaded_models, drug_descriptors, food.nutrients,
                                       answer, draw)
       IN /\ lookups' = [lookups EXCEPT !.food = fev]
          /\ IF food.raises
             THEN /\ response' = EndpointError
                  /\ UNCHANGED <<normVars, food_nutrients, proba, rnd, features, result,
                                 classifier_calls, fallback_calls, raised>>
             ELSE /\ food_nutrients_raw' = IF fev = "ok" THEN raw ELSE food_nutrients_raw
                  /\ nutrients' = IF fev = "ok" THEN food.nutrients ELSE nutrients
                  /\ food_nutrients' = food.nutrients
                  /\ proba' = IF call.out.classifier_calls > 0 THEN answer ELSE NoProba
                  /\ rnd' = DrawsUsed(call.out, draw)
                  /\ features' = call.features
                  /\ result' = call.out.result
                  /\ classifier_calls' = call.out.classifier_calls
                  /\ fallback_calls' = call.out.fallback_calls
                  /\ raised' = call.out.raised
                  /\ response' = IF call.out.raised THEN EndpointError
                                 ELSE [status |-> 200, detail |-> call.out.result.effect]
  /\ pc' = "responded"
  /\ UNCHANGED <<loaded_models, drug_descriptors, requests>>

NextApi == LoadModels \/ PredictEndpointDrug \/ PredictEndpointFood

SpecApi == InitPredict /\ [][NextApi]_vars

(* ---------------- the server under concurrent requests ---------------- *)
\* line 545
health_check(models) ==
  IF \A key \in {"xgb_model", "label_encoder"} : HasKey(models, key)
  THEN "models_loaded" ELSE "models_missing"

\* predict_interaction storing the order it synthesized back into the bundle
BundleAfterPredict_CacheOrder(models, drug, food) ==
  IF HasKey(models, "feature_order") THEN models
  ELSE Append(models, <<"feature_order", DictKeys(drug) \o DictKeys(food)>>)

\* lines 372-418: predict_interaction only tests and reads loaded_models
\* (lines 376, 377, 395-397); it assigns to no member of it
BundleAfterPredict(models, drug, food) == models

ServerRecord ==
  << [id |-> 1185, amount |-> AmountNum(150)], [id |-> 1087, amount |-> AmountNum(50)] >>
\* the lookups and classifier answers tried per request: one of each kind
\* of outcome
ServerFeatureOrders == {<<"MolWt", "Calcium">>, <<"Unknown_Feature">>}
ServerHbaDraws == {1}
ServerFoodEvents == {"ok", "search_non200", "timeout"}
ServerAnswers == {a \in ClassifierAnswers : a.raises \/ a.probs = <<5, 5, 80, 5, 5>>}
ServerDraws == {d \in PredictDraws : d.r = 70 \/ (d.choice = 4 /\ d.conf = 91)}

\* RDKit runs only in the handlers that compute descriptors, once the SMILES
\* arrived; predict_interaction runs only in /api/predict, once
\* search_food_nutrients returned
RdkitRuns(kind, sev) == IF kind = "predict" /\ sev = "ok" THEN RdkitEvents ELSE {"ok"}
PredictRuns(kind, fev) == kind = "predict" /\ fev # "timeout"

\* a load step of the server's startup
ServerLoadArtifact == LoadArtifactFrom(ServerFeatureOrders)

Responded(handler, status, detail, seen) ==
  [handler EXCEPT !.pc = "responded", !.drug = NoDict, !.status = status,
                  !.detail = detail, !.seen = seen]

\* GET /api/health: a synchronous handler, one step
HealthCheck(r) ==
  /\ pc = "serving"
  /\ requests[r].pc = "idle"
  /\ requests' = [requests EXCEPT ![r] =
       Responded([@ EXCEPT !.kind = "health"], 200, health_check(loaded_models),
                 DictKeys(loaded_models))]
  /\ UNCHANGED <<pc, normVars, loaded_models, inputVars, outputVars>>

\* a POST arrives and its handler runs to its first await
StartLookup(r) ==
  /\ pc = "serving"
  /\ requests[r].pc = "idle"
  /\ \E kind \in {"predict", "canonical", "descriptors", "nutrients"} :
       requests' = [requests EXCEPT ![r] =
         [@ EXCEPT !.kind = kind,
                   !.pc = IF kind = "nutrients" THEN "await_food" ELSE "await_smiles"]]
  /\ UNCHANGED <<pc, normVars, loaded_models, inputVars, outputVars>>

\* get_canonical_smiles returns or raises in /api/drug/canonical (lines
\* 471-475), /api/drug/descriptors (477-490) or /api/predict (505-508)
SmilesReturns(r) ==
  /\ pc = "serving"
  /\ requests[r].pc = "await_smiles"
  /\ \E sev \in SmilesEvents :
     \E rev \in RdkitRuns(requests[r].kind, sev) :
     \E hba \in ServerHbaDraws :
       LET smiles == get_canonical_smiles(sev)
           handler == requests[r]
       IN requests' = [requests EXCEPT ![r] =
            IF smiles.raises
            THEN Responded(handler,
                           IF handler.kind = "predict" THEN EndpointError.status
                           ELSE smiles.status,
                           "error", handler.seen)
            ELSE IF handler.kind = "canonical"
                 THEN Responded(handler, 200, "smiles", handler.seen)
            ELSE IF handler.kind = "descriptors"
                 THEN Responded(handler, 200, "descriptors", handler.seen)
            ELSE [handler EXCEPT !.pc = "await_food",
                                 !.drug = calculate_molecular_descriptors(rev, hba, 0)]]
  /\ UNCHANGED <<pc, normVars, loaded_models, inputVars, outputVars>>

\* search_food_nutrients returns or raises in /api/food/nutrients (lines
\* 492-500) or /api/predict (510-540), which then calls predict_interaction
FoodReturns(r) ==
  /\ pc = "serving"
  /\ requests[r].pc = "await_food"
  /\ \E fev \in ServerFoodEvents :
     \E answer \in (IF PredictRuns(requests[r].kind, fev) THEN ServerAnswers ELSE {NoProba}) :
     \E draw \in (IF PredictRuns(requests[r].kind, fev) THEN ServerDraws ELSE {NoDraw}) :
       LET food == search_food_nutrients(fev, ServerRecord, 499, 249)
           handler == requests[r]
           call == predict_interaction(loaded_models, handler.drug, food.nutrients,
                                       answer, draw)
       IN IF handler.kind = "nutrients"
          THEN /\ requests' = [requests EXCEPT ![r] =
                    IF food.raises THEN Responded(handler, food.status, "error", handler.seen)
                    ELSE Responded(handler, 200, "nutrients", handler.seen)]
               /\ UNCHANGED loaded_models
          ELSE IF food.raises
          THEN /\ requests' = [requests EXCEPT ![r] =
                    Responded(handler, EndpointError.status, "error", handler.seen)]
               /\ UNCHANGED loaded_models
          ELSE /\ requests' = [requests EXCEPT ![r] =
                    Responded(handler, IF call.out.raised THEN EndpointError.status ELSE 200,
                              call.out.result.effect, DictKeys(loaded_models))]
               /\ loaded_models' = BundleAfterPredict(loaded_models, handler.drug, food.nutrients)
  /\ UNCHANGED <<pc, normVars, inputVars, outputVars>>

NextServer ==
  \/ ServerLoadArtifact
  \/ LoadFails
  \/ LoadCompletes
  \/ \E r \in RequestIds : HealthCheck(r)
  \/ \E r \in RequestIds : StartLookup(r)
  \/ \E r \in RequestIds : SmilesReturns(r)
  \/ \E r \in RequestIds : FoodReturns(r)

SpecServer == InitPredict /\ [][NextServer]_vars

(* ======================= claims on the normalizer ======================= *)

\* the non-null amounts the record carries under identifier id
NonNullAmountsOf(raw, id) ==
  {raw[i].amount.val : i \in {j \in 1..Len(raw) : raw[j].id = id /\ raw[j].amount.kind = "num"}}

\* the record has entries for both aliases, with different non-null amounts
BothAliasesDiffer(raw, first, second) ==
  \E a \in NonNullAmountsOf(raw, first) : \E b \in NonNullAmountsOf(raw, second) : a # b

AliasPriority(name, first, second) ==
  (pc = "done" /\ BothAliasesDiffer(food_nutrients_raw, first, second))
    => DictItem(nutrients, name) \in NonNullAmountsOf(food_nutrients_raw, first)

\* C4: when the record holds both alias identifiers of Vitamin_A_ug (1106, 1104)
\* with different non-null amounts, the normalizer returns the amount of the
\* first alias in the declared list (1106), whatever the order of the entries;
\* likewise Folate_ug with 1177 before 1186.
C4_AliasPriority ==
  /\ AliasPriority("Vitamin_A_ug", 1106, 1104)
  /\ AliasPriority("Folate_ug", 1177, 1186)

\* the first non-null amount among the entries whose identifier is an alias,
\* 0.0 when there is none
RECURSIVE FirstNonNullAmount(_, _, _)
FirstNonNullAmount(raw, nutrient_ids, i) ==
  IF i > Len(raw) THEN 0
  ELSE IF raw[i].id \in Range(nutrient_ids) /\ raw[i].amount.kind # "null"
       THEN GetAmount(raw[i]).val
       ELSE FirstNonNullAmount(raw, nutrient_ids, i + 1)

\* C5: for every expected nutrient the normalizer returns the first non-null
\* amount among the entries matching one of its aliases, and 0.0 only when no
\* entry matches or every matching entry is null; a matching null entry does
\* not hide a later matching non-null entry.
C5_FirstNonNullAmount ==
  pc = "done" =>
    \A n \in 1..Len(nutrient_map) :
      DictItem(nutrients, nutrient_map[n][1])
        = FirstNonNullAmount(food_nutrients_raw, nutrient_map[n][2], 1)

SupportedNutrients ==
  Range(supported_macronutrients) \cup Range(supported_vitamins)
    \cup Range(supported_minerals) \cup Range(supported_fat_breakdown)

\* no entry of the record gives the nutrient a non-null amount
NoUsableSource(raw, nutrient_ids) ==
  \A i \in 1..Len(raw) : ~(raw[i].id \in Range(nutrient_ids) /\ raw[i].amount.kind = "num")

\* C10: every mapping the normalizer returns holds exactly the 21 supported
\* nutrient keys (3 macronutrients, 8 vitamins, 6 minerals, 4 fat breakdown),
\* each once, and a key with no usable source value has the value 0.0.
C10_AllNutrientsPresent ==
  pc = "done" =>
    /\ Len(nutrients) = 21
    /\ total_nutrients = 21
    /\ Len(supported_macronutrients) = 3 /\ Len(supported_vitamins) = 8
    /\ Len(supported_minerals) = 6 /\ Len(supported_fat_breakdown) = 4
    /\ Range(DictKeys(nutrients)) = SupportedNutrients
    /\ Cardinality(Range(DictKeys(nutrients))) = Len(nutrients)
    /\ \A n \in 1..Len(nutrient_map) :
         LET name == nutrient_map[n][1]
         IN HasKey(nutrients, name)
              /\ (NoUsableSource(food_nutrients_raw, nutrient_map[n][2])
                    => DictItem(nutrients, name) = 0)

\* a record with an unknown identifier and a null calcium amount was normalized
C10_Witness ==
  /\ pc = "done"
  /\ Len(food_nutrients_raw) = 2
  /\ food_nutrients_raw[1].id = 9999
  /\ food_nutrients_raw[2] = [id |-> 1087, amount |-> AmountNull]
  /\ DictItem(nutrients, "Calcium") = 0
  /\ Len(nutrients) = 21

(* ======================= claims on the predictor ======================= *)

KeySet(d) == {d[i][1] : i \in 1..Len(d)}
ValueAt(d, k) == d[CHOOSE i \in 1..Len(d) : d[i][1] = k][2]

\* C1: the vector predict_interaction builds has the length of the feature
\* order, and position i holds the drug value of the i-th name if the drug
\* mapping has it, else the food value if the food mapping has it, else 0.0
\* (the drug value wins on a name both mappings have).
C1_FeatureVector ==
  pc = "done" =>
    LET order == FeatureOrderOf(loaded_models, drug_descriptors, food_nutrients)
    IN /\ Len(features) = Len(order)
       /\ \A i \in 1..Len(order) :
            features[i] =
              IF order[i] \in KeySet(drug_descriptors) THEN ValueAt(drug_descriptors, order[i])
              ELSE IF order[i] \in KeySet(food_nutrients) THEN ValueAt(food_nutrients, order[i])
              ELSE 0

\* a loaded order naming a colliding and an unknown feature was assembled
C1_Witness ==
  /\ pc = "done"
  /\ HasKey(loaded_models, "feature_order")
  /\ DictItem(loaded_models, "feature_order") = <<"Calcium", "Unknown_Feature">>
  /\ drug_descriptors = << <<"MolWt", 7>>, <<"Calcium", 999>> >>
  /\ food_nutrients = << <<"Calcium", 50>> >>
  /\ features = <<999, 0>>

BundleIncomplete ==
  ~("xgb_model" \in KeySet(loaded_models) /\ "label_encoder" \in KeySet(loaded_models))

\* C2: in every bundle state load_models can leave in which the model or the
\* decoder is missing, predict_interaction returns what the Fallback Scorer
\* returns and raises nothing.
C2_PartialLoadFallsBack ==
  (pc = "done" /\ BundleIncomplete) =>
    /\ ~raised
    /\ fallback_calls >= 1
    /\ result = get_fallback_prediction(drug_descriptors, food_nutrients, rnd)

\* only the model was loaded and a request was answered by the rules
C2_Witness ==
  /\ pc = "done"
  /\ loaded_models = << <<"xgb_model", XgbModelArtifact>> >>
  /\ food_nutrients = << <<"Vitamin_K_ug", 150>>, <<"Calcium", 50>> >>
  /\ rnd.r = 70
  /\ result.effect = "possible" /\ result.confidence = 68
  /\ ~raised

\* the classifier or the decoder raised for this request
ClassifierFailed ==
  \/ proba.raises
  \/ Len(proba.probs) = 0
  \/ \E i \in 1..Len(proba.probs) :
       i > Len(LabelEncoderClasses) /\ \A j \in 1..Len(proba.probs) : j # i => proba.probs[j] < proba.probs[i]

\* C3: with a complete bundle, an error of the classifier or the decoder is not
\* propagated: the classifier was invoked once, the Fallback Scorer once, and
\* the caller gets the scorer's result; when the classifier succeeds the
\* Fallback Scorer is not invoked.
C3_ClassifierErrorFallsBack ==
  (pc = "done" /\ ~BundleIncomplete) =>
    /\ ~raised
    /\ classifier_calls = 1
    /\ ClassifierFailed =>
         /\ fallback_calls = 1
         /\ result = get_fallback_prediction(drug_descriptors, food_nutrients, rnd)
    /\ ~ClassifierFailed =>
         /\ fallback_calls = 0
         /\ result.effect \in Range(LabelEncoderClasses)

\* the decoder rejected the class index and the rules answered
C3_Witness ==
  /\ pc = "done"
  /\ ~BundleIncomplete
  /\ proba = [raises |-> FALSE, probs |-> <<0, 0, 0, 0, 0, 100>>]
  /\ classifier_calls = 1 /\ fallback_calls = 1
  /\ food_nutrients = << <<"Vitamin_K_ug", 150>>, <<"Calcium", 50>> >>
  /\ rnd.r = 70
  /\ result.effect = "possible" /\ result.confidence = 68

(* ======================= claims on the fallback scorer ======================= *)

OverrideTriggered == rnd.r > 70
VitaminK == IF "Vitamin_K_ug" \in KeySet(food_nutrients) THEN ValueAt(food_nutrients, "Vitamin_K_ug") ELSE 0
Calcium == IF "Calcium" \in KeySet(food_nutrients) THEN ValueAt(food_nutrients, "Calcium") ELSE 0

\* C6 as claimed: without the override, Vitamin_K_ug <= 100 and Calcium > 150
\* give ("possible", 0.65).
C6_Original ==
  (pc = "done" /\ ~OverrideTriggered /\ VitaminK <= 100 /\ Calcium > 150) =>
    (result.effect = "possible" /\ result.confidence = 65)

\* C6 (amended): without the override, every food with Vitamin_K_ug <= 100 and
\* Calcium > 150 gives ("possible", 0.75): the calcium rule keeps the larger of
\* 0.65 and the confidence so far.
C6_CalciumRule ==
  (pc = "done" /\ ~OverrideTriggered /\ VitaminK <= 100 /\ Calcium > 150) =>
    (result.effect = "possible" /\ result.confidence = 75)

\* {"Vitamin_K_ug": 0, "Calcium": 200} was scored without the override
C6_Witness ==
  /\ pc = "done"
  /\ ~OverrideTriggered
  /\ food_nutrients = << <<"Vitamin_K_ug", 0>>, <<"Calcium", 200>> >>
  /\ result.effect = "possible" /\ result.confidence = 75

RuleStep1 == [effect |-> "no effect", confidence |-> 75]
RuleStep2 == IF VitaminK > 100 THEN [effect |-> "possible", confidence |-> 68] ELSE RuleStep1
RuleStep3 ==
  IF Calcium > 150
  THEN [effect |-> IF RuleStep2.effect = "no effect" THEN "possible" ELSE RuleStep2.effect,
        confidence |-> IF RuleStep2.confidence >= 65 THEN RuleStep2.confidence ELSE 65]
  ELSE RuleStep2

\* C7: without the override the result is rule 1, then rule 2, then rule 3,
\* a missing key read as 0 and the drug mapping ignored: Vitamin_K_ug > 100
\* gives ("possible", 0.68) whatever the calcium, Vitamin_K_ug <= 100 with
\* Calcium <= 150 gives ("no effect", 0.75).
C7_RuleOrder ==
  (pc = "done" /\ ~OverrideTriggered) =>
    /\ result.effect = RuleStep3.effect /\ result.confidence = RuleStep3.confidence
    /\ VitaminK > 100 => (result.effect = "possible" /\ result.confidence = 68)
    /\ (VitaminK <= 100 /\ Calcium <= 150) =>
         (result.effect = "no effect" /\ result.confidence = 75)

\* both nutrients at their thresholds, a drug mapping with a large Calcium entry
C7_Witness ==
  /\ pc = "done"
  /\ ~OverrideTriggered
  /\ drug_descriptors = << <<"MolWt", 7>>, <<"Calcium", 999>> >>
  /\ food_nutrients = << <<"Vitamin_K_ug", 100>>, <<"Calcium", 150>> >>
  /\ result.effect = "no effect" /\ result.confidence = 75

\* C8: for every input and every outcome of the draws the confidence returned
\* by the Fallback Scorer is in [0.60, 0.92] or one of 0.65, 0.68, 0.75, hence
\* in [0, 1], and the label is one of the four the scorer knows.
C8_ConfidenceRange ==
  pc = "done" =>
    /\ result.confidence \in (60..92) \cup {65, 68, 75}
    /\ result.confidence >= 0 /\ result.confidence <= 100
    /\ result.effect \in {"no effect", "possible", "positive", "harmful"}

\* the override drew the top of the range and the label "harmful"
C8_Witness ==
  /\ pc = "done"
  /\ OverrideTriggered
  /\ result.confidence = 91
  /\ result.effect = "harmful"

(* ======================= claims on the request flow ======================= *)

\* C9: in /api/predict every failure of the Descriptor Source and every
\* failure of the Nutrient Source ends the request with an error; no failed
\* lookup is answered with a successful prediction.
C9_UpstreamFailurePropagates ==
  (pc = "responded"
     /\ (lookups.smiles \in SmilesEvents \ {"ok"} \/ lookups.food \in FoodEvents \ {"ok"}))
    => response.status # 200

(* ======================= claims on the bundle ======================= *)

\* C12: load_models loads model, decoder and feature order in that order and
\* stops at the first failure, so in every reachable state the loaded members
\* are a prefix of (xgb_model, label_encoder, feature_order); and whenever
\* feature_order is missing the vector follows the synthesized order, the drug
\* keys then the food keys, also when model and decoder are loaded and the
\* classifier is invoked.
C12_LoadedPrefix ==
  /\ "label_encoder" \in KeySet(loaded_models) => "xgb_model" \in KeySet(loaded_models)
  /\ "feature_order" \in KeySet(loaded_models) =>
       ("xgb_model" \in KeySet(loaded_models) /\ "label_encoder" \in KeySet(loaded_models))
  /\ Cardinality(KeySet(loaded_models)) = Len(loaded_models)
  /\ (pc = "done" /\ "feature_order" \notin KeySet(loaded_models)) =>
       /\ Len(features) = Len(drug_descriptors) + Len(food_nutrients)
       /\ \A i \in 1..Len(drug_descriptors) : features[i] = drug_descriptors[i][2]
       /\ \A j \in 1..Len(food_nutrients) :
            features[Len(drug_descriptors) + j] =
              IF food_nutrients[j][1] \in KeySet(drug_descriptors)
              THEN ValueAt(drug_descriptors, food_nutrients[j][1])
              ELSE food_nutrients[j][2]
  /\ (pc = "done" /\ KeySet(loaded_models) = {"xgb_model", "label_encoder"}) =>
       classifier_calls = 1

\* model and decoder loaded, the third load failed, and the classifier was
\* invoked on a vector in the synthesized order
C12_Witness ==
  /\ pc = "done"
  /\ DictKeys(loaded_models) = <<"xgb_model", "label_encoder">>
  /\ classifier_calls = 1 /\ fallback_calls = 0
  /\ drug_descriptors = << <<"MolWt", 7>>, <<"Calcium", 999>> >>
  /\ food_nutrients = << <<"Vitamin_K_ug", 150>>, <<"Calcium", 50>> >>
  /\ features = <<7, 999, 150, 999>>

\* every handler that has read the bundle saw the members it has now
AllSeenAgree ==
  \A r \in RequestIds :
    requests[r].seen # <<"unread">> =>
      /\ requests[r].seen = DictKeys(loaded_models)
      /\ \A q \in RequestIds :
           requests[q].seen # <<"unread">> => requests[q].seen = requests[r].seen

\* C11: once startup has finished, no step of any request, under any
\* interleaving of concurrent predict, health, descriptor and nutrient
\* requests, adds, removes or replaces a member of loaded_models, and every
\* request sees the bundle state the first one saw.
C11_BundleReadOnly ==
  [][pc = "serving" => (loaded_models' = loaded_models /\ AllSeenAgree')]_vars

\* a predict request has been answered from a partially loaded bundle while
\* another predict request is still waiting for its nutrients
C11_Witness ==
  /\ pc = "serving"
  /\ DictKeys(loaded_models) = <<"xgb_model", "label_encoder">>
  /\ requests[1].kind = "predict" /\ requests[1].pc = "responded"
  /\ requests[1].status = 200
  /\ requests[1].seen = <<"xgb_model", "label_encoder">>
  /\ requests[2].kind = "predict" /\ requests[2].pc = "await_food"

====
